---- MODULE Spec2Model ----
(***************************************************************************)
(* Model of retrofit.py: the lexicon reader (norm_word, read_lexicon) and  *)
(* the retrofitting loop (retrofit).                                       *)
(*                                                                         *)
(* Python values are modelled as follows.                                  *)
(*   - a str is the sequence of its characters;                            *)
(*   - a numpy array is an object on `heap`, named by its address, so that *)
(*     in-place operations (+=) and fresh results (n * a, a / n) differ;   *)
(*   - a dict of word vectors is a record [keys, ref]: the keys in         *)
(*     insertion order and the address of each key's array;                *)
(*   - a float is an exact fraction <<numerator, denominator>>.            *)
(***************************************************************************)
EXTENDS Integers, Sequences, FiniteSets, TLC

VARIABLES
    \* ---- retrofit(wvecs, lexicon, n_iters) ----
    wvecs,       \* the caller's table: [keys |-> Seq(word), ref |-> [word -> address]]
    lexicon,     \* the relation map: [word -> list of words]
    n_iters,     \* the number of passes asked for
    heap,        \* the numpy arrays: heap[a] is the content of the array at address a
    new_wvecs,   \* the working table, a dict like wvecs
    loop_order,  \* the order in which this run iterates over the set loop_voc
    it,          \* the number of passes of range(n_iters) started so far
    todo,        \* the words of loop_voc the current pass has still to visit
    word,        \* the loop variable of line 107
    pend,        \* the words of ctxt_words the loop of line 116 has still to visit
    n_ctxt,      \* len(ctxt_words)
    new_vec,     \* the address of the array bound to new_vec
    result,      \* the returned dict
    pc,          \* the position in retrofit
    \* ---- read_lexicon(fname) ----
    rl_f,        \* the lines of the file, each one already lower-cased, stripped and split
    rl_pos,      \* the number of lines read
    rl_lexicon,  \* the dict read_lexicon builds
    rl_pc        \* the position in read_lexicon

retrofit_vars == <<wvecs, lexicon, n_iters, heap, new_wvecs, loop_order, it, todo,
                   word, pend, n_ctxt, new_vec, result, pc>>
rl_vars == <<rl_f, rl_pos, rl_lexicon, rl_pc>>
vars == <<retrofit_vars, rl_vars>>

-----------------------------------------------------------------------------
(* Bounds of the checked instances.                                        *)

MaxIters == 2
MaxVal == 2
MaxLines == 2

None == "None"

Range(s) == {s[i] : i \in 1..Len(s)}

-----------------------------------------------------------------------------
(* Floats, as exact fractions in lowest terms.                             *)

RECURSIVE GCD(_, _)
GCD(a, b) == IF b = 0 THEN a ELSE GCD(b, a % b)

NaN == <<0, 0>>

Frac(n, d) == IF d = 0 THEN NaN ELSE LET g == GCD(n, d) IN <<n \div g, d \div g>>

LCM(a, b) == (a \div GCD(a, b)) * b

FAdd(x, y) == IF x = NaN \/ y = NaN THEN NaN
              ELSE LET l == LCM(x[2], y[2]) IN
                   Frac(x[1] * (l \div x[2]) + y[1] * (l \div y[2]), l)

FMul(k, x) == IF x = NaN THEN NaN ELSE Frac(k * x[1], x[2])

FDiv(x, k) == IF x = NaN \/ k = 0 THEN NaN ELSE Frac(x[1], x[2] * k)

(* numpy element-wise arithmetic on arrays of one length *)
VecScale(k, v) == [i \in 1..Len(v) |-> FMul(k, v[i])]
VecAdd(v, u) == [i \in 1..Len(v) |-> FAdd(v[i], u[i])]
VecDiv(v, k) == [i \in 1..Len(v) |-> FDiv(v[i], k)]

-----------------------------------------------------------------------------
(* norm_word and read_lexicon                                              *)

Digits == {"0", "1", "2", "3", "4", "5", "6", "7", "8", "9"}
Letters == {"a", "A", "b", "B"}
WordChars == Letters \cup Digits \cup {"_"}

LowerChar(c) == CASE c = "A" -> "a" [] c = "B" -> "b" [] OTHER -> c
Lower(s) == [i \in 1..Len(s) |-> LowerChar(s[i])]

NUM == <<"<", "n", "u", "m", ">">>
PUNC == <<"<", "p", "u", "n", "c", ">">>

(* IS_NUMBER.search(s): the pattern \d+.* is found iff s holds a digit *)
IS_NUMBER_search(s) == \E i \in 1..Len(s) : s[i] \in Digits

(* IS_NON_WORD.sub('', s): s without its non-word characters *)
IS_NON_WORD_sub(s) == SelectSeq(s, LAMBDA c : c \in WordChars)

norm_word(w) ==
    IF IS_NUMBER_search(Lower(w)) THEN NUM
    ELSE IF IS_NON_WORD_sub(w) = <<>> THEN PUNC
    ELSE Lower(w)

(* line.lower().strip().split(): rl_f holds the tokens of each line; the *)
(* lower-casing is applied here                                          *)
SplitLine(line) == [i \in 1..Len(line) |-> Lower(line[i])]

(* [norm_word(word) for word in words[1:]] *)
Related(words) == [i \in 1..(Len(words) - 1) |-> norm_word(words[i + 1])]

(* lexicon[key] = value on a dict *)
DictSet(d, key, value) ==
    [k \in DOMAIN d \cup {key} |-> IF k = key THEN value ELSE d[k]]

(* a reader that adds a repeated key's words to the ones it holds *)
StoreLine_merge(d, words) ==
    LET key == norm_word(words[1]) IN
    DictSet(d, key, (IF key \in DOMAIN d THEN d[key] ELSE <<>>) \o Related(words))

(* the statement of line 96, on a line that has a first token *)
StoreLine(d, words) == DictSet(d, norm_word(words[1]), Related(words))

Chars == {"a", "A", "1", "-"}
Tokens == {<<c>> : c \in Chars} \cup {<<"a", c>> : c \in {"1", "-"}}
Lines == {<<>>} \cup {<<s>> : s \in Tokens} \cup {<<s, r>> : s \in Tokens, r \in Tokens}
EmptyDict == [k \in {} |-> <<>>]

RLInit ==
    /\ rl_f \in UNION {[1..n -> Lines] : n \in 0..MaxLines}
    /\ rl_pos = 0
    /\ rl_lexicon = EmptyDict
    /\ rl_pc = "for"

(* one turn of the loop of lines 94-96; words[0] raises IndexError on a  *)
(* line without tokens                                                   *)
ReadLine ==
    /\ rl_pc = "for"
    /\ rl_pos < Len(rl_f)
    /\ LET words == SplitLine(rl_f[rl_pos + 1]) IN
         IF Len(words) = 0
         THEN /\ rl_pc' = "error"
              /\ UNCHANGED <<rl_lexicon, rl_pos>>
         ELSE /\ rl_lexicon' = StoreLine(rl_lexicon, words)
              /\ rl_pos' = rl_pos + 1
              /\ rl_pc' = "for"
    /\ UNCHANGED <<rl_f, retrofit_vars>>

(* line 97 *)
ReturnLexicon ==
    /\ rl_pc = "for"
    /\ rl_pos = Len(rl_f)
    /\ rl_pc' = "done"
    /\ UNCHANGED <<rl_f, rl_pos, rl_lexicon, retrofit_vars>>

-----------------------------------------------------------------------------
(* retrofit                                                                *)

Words == {"A", "B", "C"}

(* every ordering of every subset of S: the key orders a dict can have *)
KeySeqs(S) == {k \in UNION {[1..n -> S] : n \in 0..Cardinality(S)} :
                 \A i, j \in 1..Len(k) : k[i] = k[j] => i = j}

(* the orders in which a set can be iterated *)
Orders(S) == {k \in [1..Cardinality(S) -> S] :
                 \A i, j \in 1..Cardinality(S) : k[i] = k[j] => i = j}

Index(keys, w) == CHOOSE i \in 1..Len(keys) : keys[i] = w

(* deepcopy(wvecs) on heap h: a new dict with the same keys in the same  *)
(* order, each bound to a new array that holds a copy of the content     *)
deepcopy_heap(d, h) == h \o [i \in 1..Len(d.keys) |-> h[d.ref[d.keys[i]]]]
deepcopy_dict(d, h) ==
    [keys |-> d.keys,
     ref  |-> [w \in Range(d.keys) |-> Len(h) + Index(d.keys, w)]]

(* line 103: set(new_wvecs.keys()) *)
wv_voc(d) == Range(d.keys)

(* loops that visit every lexicon key, or every table word *)
loop_voc_lexicon(d, lex) == DOMAIN lex
loop_voc_table(d, lex) == wv_voc(d)

(* line 104: wv_voc.intersection(set(lexicon.keys())) *)
loop_voc(d, lex) == wv_voc(d) \cap DOMAIN lex

(* a loop that runs one pass too many *)
InRange_inclusive(i, n) == i <= n

(* line 105: range(n_iters) has a next element after i elements *)
InRange(i, n) == i < n

(* line 108: set(lexicon[word]).intersection(wv_voc) *)
ctxt_words(lex, w, d) == Range(lex[w]) \cap wv_voc(d)

(* a loop that does not skip a word without neighbors *)
NoNeighbor_never(n) == FALSE

(* line 111: if n_ctxt == 0: continue *)
NoNeighbor(n) == n = 0

(* an update that weights the working vector of the word, and a        *)
(* product computed in place (new_vec = wvecs[word]; new_vec *= n_ctxt)  *)
OwnRef_working(orig, working, w) == working.ref[w]
Times_inplace(h, n, a) == [heap |-> [h EXCEPT ![a] = VecScale(n, h[a])], addr |-> a]

(* line 114: n_ctxt * wvecs[word] is a new array; the operand is the     *)
(* array of the word in the caller's table                               *)
OwnRef(orig, working, w) == orig.ref[w]
Times(h, n, a) == [heap |-> Append(h, VecScale(n, h[a])), addr |-> Len(h) + 1]

(* an update that reads its neighbors in the caller's table *)
NeighborRef_original(orig, working, u) == orig.ref[u]

(* line 117: new_vec += new_wvecs[pp_wrd] changes the array of new_vec   *)
NeighborRef(orig, working, u) == working.ref[u]
IAdd(h, a, b) == [h EXCEPT ![a] = VecAdd(h[a], h[b])]

(* line 118: new_vec / (2 * n_ctxt) is a new array, bound to the word in *)
(* the working dict                                                      *)
Divisor(n) == 2 * n
Over(h, a, k) == [heap |-> Append(h, VecDiv(h[a], k)), addr |-> Len(h) + 1]
Bind(d, w, a) == [d EXCEPT !.ref[w] = a]

(* the input tables: word w carries s times a fixed direction *)
Base == [w \in Words |-> CASE w = "A" -> <<1, 0>> [] w = "B" -> <<0, 1>> [] OTHER -> <<1, 1>>]
InputVec(w, s) == [i \in 1..2 |-> Frac(s * Base[w][i], 1)]
NbrLists == {<<>>} \cup {<<u>> : u \in Words} \cup {<<u, v>> : u \in Words, v \in Words}
Lexicons == UNION {[D -> NbrLists] : D \in SUBSET Words \ {Words}}
EmptyTable == [keys |-> <<>>, ref |-> [w \in {} |-> 0]]

RetrofitInit ==
    /\ \E keys \in KeySeqs(Words), s \in 1..MaxVal :
         /\ wvecs = [keys |-> keys, ref |-> [w \in Range(keys) |-> Index(keys, w)]]
         /\ heap = [i \in 1..Len(keys) |-> InputVec(keys[i], s)]
    /\ lexicon \in Lexicons
    /\ n_iters \in 0..MaxIters
    /\ new_wvecs = None
    /\ loop_order = <<>>
    /\ it = 0
    /\ todo = <<>>
    /\ word = None
    /\ pend = {}
    /\ n_ctxt = 0
    /\ new_vec = 0
    /\ result = None
    /\ pc = "call"

(* lines 102-104 *)
Call ==
    /\ pc = "call"
    /\ new_wvecs' = deepcopy_dict(wvecs, heap)
    /\ heap' = deepcopy_heap(wvecs, heap)
    /\ loop_order' \in Orders(loop_voc(new_wvecs', lexicon))
    /\ pc' = "range"
    /\ UNCHANGED <<wvecs, lexicon, n_iters, it, todo, word, pend, n_ctxt, new_vec,
                   result, rl_vars>>

(* line 105: the next pass, or the end of the loop *)
ForIter ==
    /\ pc = "range"
    /\ IF InRange(it, n_iters)
       THEN /\ it' = it + 1
            /\ todo' = loop_order
            /\ pc' = "for"
       ELSE /\ pc' = "return"
            /\ UNCHANGED <<it, todo>>
    /\ UNCHANGED <<wvecs, lexicon, n_iters, heap, new_wvecs, loop_order, word, pend,
                   n_ctxt, new_vec, result, rl_vars>>

(* line 107: the next word of the pass, or the end of the pass *)
ForWord ==
    /\ pc = "for"
    /\ IF todo # <<>>
       THEN /\ word' = Head(todo)
            /\ todo' = Tail(todo)
            /\ pc' = "body"
       ELSE /\ pc' = "range"
            /\ UNCHANGED <<word, todo>>
    /\ UNCHANGED <<wvecs, lexicon, n_iters, heap, new_wvecs, loop_order, it, pend,
                   n_ctxt, new_vec, result, rl_vars>>

(* lines 108-114; lexicon[word] and wvecs[word] raise KeyError on a word *)
(* the dict does not hold                                                *)
Body ==
    /\ pc = "body"
    /\ IF word \notin DOMAIN lexicon
       THEN /\ pc' = "error"
            /\ UNCHANGED <<pend, n_ctxt, new_vec, heap>>
       ELSE LET ctxt == ctxt_words(lexicon, word, new_wvecs)
                n == Cardinality(ctxt) IN
            /\ n_ctxt' = n
            /\ pend' = ctxt
            /\ IF NoNeighbor(n)
               THEN /\ pc' = "for"
                    /\ UNCHANGED <<new_vec, heap>>
               ELSE IF word \notin DOMAIN wvecs.ref
               THEN /\ pc' = "error"
                    /\ UNCHANGED <<new_vec, heap>>
               ELSE LET r == Times(heap, n, OwnRef(wvecs, new_wvecs, word)) IN
                    /\ heap' = r.heap
                    /\ new_vec' = r.addr
                    /\ pc' = "add"
    /\ UNCHANGED <<wvecs, lexicon, n_iters, new_wvecs, loop_order, it, todo, word,
                   result, rl_vars>>

(* lines 116-117: one turn of the loop over ctxt_words, a set *)
AddNeighbor ==
    /\ pc = "add"
    /\ \E pp_wrd \in pend :
         /\ heap' = IAdd(heap, new_vec, NeighborRef(wvecs, new_wvecs, pp_wrd))
         /\ pend' = pend \ {pp_wrd}
    /\ UNCHANGED <<wvecs, lexicon, n_iters, new_wvecs, loop_order, it, todo, word,
                   n_ctxt, new_vec, result, pc, rl_vars>>

(* line 118 *)
Store ==
    /\ pc = "add"
    /\ pend = {}
    /\ LET r == Over(heap, new_vec, Divisor(n_ctxt)) IN
         /\ heap' = r.heap
         /\ new_wvecs' = Bind(new_wvecs, word, r.addr)
    /\ pc' = "for"
    /\ UNCHANGED <<wvecs, lexicon, n_iters, loop_order, it, todo, word, pend, n_ctxt,
                   new_vec, result, rl_vars>>

(* line 119 *)
Return ==
    /\ pc = "return"
    /\ result' = new_wvecs
    /\ pc' = "done"
    /\ UNCHANGED <<wvecs, lexicon, n_iters, heap, new_wvecs, loop_order, it, todo,
                   word, pend, n_ctxt, new_vec, rl_vars>>

-----------------------------------------------------------------------------
(* The two specifications: a call of retrofit, and a call of read_lexicon. *)

RLIdle ==
    /\ rl_f = <<>>
    /\ rl_pos = 0
    /\ rl_lexicon = EmptyDict
    /\ rl_pc = "idle"

RetrofitIdle ==
    /\ wvecs = EmptyTable
    /\ heap = <<>>
    /\ lexicon = EmptyDict
    /\ n_iters = 0
    /\ new_wvecs = None
    /\ loop_order = <<>>
    /\ it = 0
    /\ todo = <<>>
    /\ word = None
    /\ pend = {}
    /\ n_ctxt = 0
    /\ new_vec = 0
    /\ result = None
    /\ pc = "idle"

Init == RetrofitInit /\ RLIdle
Next == Call \/ ForIter \/ ForWord \/ Body \/ AddNeighbor \/ Store \/ Return
Spec == Init /\ [][Next]_vars

InitLex == RLInit /\ RetrofitIdle
NextLex == ReadLine \/ ReturnLexicon
SpecLex == InitLex /\ [][NextLex]_vars

-----------------------------------------------------------------------------
(* Properties                                                              *)

RECURSIVE VecSum(_, _, _)
(* the sum of z and of f[u] for the u of S *)
VecSum(z, S, f) ==
    IF S = {} THEN z
    ELSE LET u == CHOOSE x \in S : TRUE IN VecSum(VecAdd(z, f[u]), S \ {u}, f)

Started == pc \notin {"idle", "call"}
Keys == Range(wvecs.keys)
Original == [w \in Keys |-> heap[wvecs.ref[w]]]
Working == [w \in Keys |-> heap[new_wvecs.ref[w]]]
Returned == [w \in Range(result.keys) |-> heap[result.ref[w]]]
Neighbors(w) == IF w \in DOMAIN lexicon THEN Range(lexicon[w]) \cap Keys ELSE {}
F(n) == <<n, 1>>
Half == <<1, 2>>

(* C1 as stated: retrofit on an empty table ends in an error and returns *)
(* no table.                                                             *)
C1_EmptyTableFails == (pc # "idle" /\ wvecs.keys = <<>>) => pc \notin {"return", "done"}

(* C1, amended: retrofit on an empty table visits no word, raises no     *)
(* error and returns an empty table, for every relation map and every    *)
(* number of iterations.                                                 *)
C1_EmptyTableReturnsEmpty ==
    (pc # "idle" /\ wvecs.keys = <<>>) =>
        /\ pc \in {"call", "range", "for", "return", "done"}
        /\ pc = "done" => result.keys = <<>>

C1_Witness ==
    /\ pc = "done"
    /\ wvecs.keys = <<>>
    /\ n_iters >= 1
    /\ \E w \in DOMAIN lexicon : lexicon[w] # <<>>

(* C2: read_lexicon never fails, whatever the lines are (blank lines and *)
(* single-token lines included).                                         *)
C2_BuildNeverFails == rl_pc # "error"

(* C3: no step of retrofit changes the caller's table: its keys, the     *)
(* array each key is bound to, and the content of each of these arrays   *)
(* are the same after the step as before.                                *)
C3_CallerTableNeverMutated ==
    [][/\ wvecs' = wvecs
       /\ \A w \in Keys : heap'[wvecs.ref[w]] = heap[wvecs.ref[w]]]_vars

C3_Witness ==
    /\ pc = "done"
    /\ n_iters >= 2
    /\ \E w \in Keys : Returned[w] # Original[w]

(* C4: within a pass a word reads the updated vector of a neighbor       *)
(* visited earlier in the pass and the previous vector of a neighbor     *)
(* visited later: after a run of one pass, the vector of each updated    *)
(* word w is (n * original[w] + sum of c[u]) / (2 * n) over its          *)
(* neighbors u, where c[u] is the returned vector of u when u comes      *)
(* before w in the pass and the original vector of u otherwise.          *)
(* Instance: {A:[2,0], B:[0,2]}, {A:{B}, B:{A}}, one pass, A then B      *)
(* gives A = [1,1] and B = [0.5,1.5].                                    *)
C4_GaussSeidel ==
    /\ (pc = "done" /\ n_iters = 1) =>
         \A w \in Range(loop_order) :
            LET ctxt == Neighbors(w)
                n == Cardinality(ctxt)
                c == [u \in Keys |->
                        IF /\ u \in Range(loop_order)
                           /\ Index(loop_order, u) < Index(loop_order, w)
                        THEN Returned[u] ELSE Original[u]]
            IN  n >= 1 =>
                  Returned[w] = VecDiv(VecSum(VecScale(n, Original[w]), ctxt, c), 2 * n)
    /\ (/\ pc = "done" /\ n_iters = 1
        /\ wvecs.keys \in {<<"A", "B">>, <<"B", "A">>}
        /\ Original = ("A" :> <<F(2), F(0)>> @@ "B" :> <<F(0), F(2)>>)
        /\ lexicon = ("A" :> <<"B">> @@ "B" :> <<"A">>)
        /\ loop_order = <<"A", "B">>)
       => Returned = ("A" :> <<F(1), F(1)>> @@ "B" :> <<Half, <<3, 2>>>>)

C4_Witness ==
    /\ pc = "done" /\ n_iters = 1
    /\ wvecs.keys = <<"A", "B">>
    /\ Original = ("A" :> <<F(2), F(0)>> @@ "B" :> <<F(0), F(2)>>)
    /\ lexicon = ("A" :> <<"B">> @@ "B" :> <<"A">>)
    /\ loop_order = <<"A", "B">>
    /\ Returned["B"] = <<Half, <<3, 2>>>>

(* C5: the step that stores the vector of a word w with n >= 1 neighbors *)
(* in the table sets working[w] to (n * original[w] + sum of working[u]  *)
(* over the neighbors u) / (2 * n), with original[w] the vector of w in  *)
(* the caller's table and working[u] the working vector of u before the  *)
(* step, and leaves every other word's vector as it is.                  *)
(* Instance: {A:[1,0], B:[0,1]}, {A:{B}}, one pass gives A = [0.5,0.5]   *)
(* and B unchanged.                                                      *)
C5_UpdateRule ==
    /\ [][(pc = "add" /\ pc' = "for") =>
            LET ctxt == Neighbors(word)
                n == Cardinality(ctxt)
            IN  /\ n >= 1
                /\ heap'[new_wvecs'.ref[word]] =
                     VecDiv(VecSum(VecScale(n, Original[word]), ctxt, Working), 2 * n)
                /\ \A v \in Keys \ {word} :
                     heap'[new_wvecs'.ref[v]] = heap[new_wvecs.ref[v]]]_vars
    /\ []((/\ pc = "done" /\ n_iters = 1
           /\ Keys = {"A", "B"}
           /\ Original = ("A" :> <<F(1), F(0)>> @@ "B" :> <<F(0), F(1)>>)
           /\ lexicon = ("A" :> <<"B">>))
          => Returned = ("A" :> <<Half, Half>> @@ "B" :> <<F(0), F(1)>>))

C5_Witness ==
    /\ pc = "for" /\ it = 2
    /\ word \in Keys
    /\ n_ctxt = 2
    /\ new_wvecs.ref[word] = Len(heap)
    /\ Working[word] # Original[word]

(* the key of line i of the file, and the last line read that has a key *)
SourceKey(i) == norm_word(SplitLine(rl_f[i])[1])
LastLine(key) == CHOOSE i \in 1..rl_pos :
                    /\ SourceKey(i) = key
                    /\ \A j \in (i + 1)..rl_pos : SourceKey(j) # key

(* C6: the map read_lexicon has built from the lines read so far holds,  *)
(* for each key that is the normalized first token of one of these       *)
(* lines, exactly the normalized other tokens of the last such line, and *)
(* it holds no other key.                                                *)
C6_LastWriteWins ==
    rl_pc \in {"for", "done"} =>
        /\ DOMAIN rl_lexicon = {SourceKey(i) : i \in 1..rl_pos}
        /\ \A key \in DOMAIN rl_lexicon :
             rl_lexicon[key] = Related(SplitLine(rl_f[LastLine(key)]))

C6_Witness ==
    /\ rl_pc = "done"
    /\ Len(rl_f) >= 2
    /\ \E i \in 1..Len(rl_f), j \in 1..Len(rl_f) :
         /\ i < j
         /\ rl_f[i][1] # rl_f[j][1]
         /\ SourceKey(i) = SourceKey(j)
         /\ Len(rl_f[i]) = 2 /\ Len(rl_f[j]) = 1
         /\ rl_lexicon[SourceKey(j)] = <<>>

(* C7: in every state of a run, a table word that has no entry in the    *)
(* relation map, or none of whose related words is in the table, is      *)
(* bound to the array deepcopy made for it, which holds the word's       *)
(* original vector; and the update is only ever computed with n >= 1.    *)
C7_IsolatedWordsUntouched ==
    Started =>
        /\ \A w \in Keys :
              Neighbors(w) = {} =>
                 /\ new_wvecs.ref[w] = Len(wvecs.keys) + Index(wvecs.keys, w)
                 /\ Working[w] = Original[w]
        /\ pc = "add" => n_ctxt >= 1

C7_Witness ==
    /\ pc = "done" /\ n_iters >= 2
    /\ \E w \in Keys \cap DOMAIN lexicon, x \in Keys :
         /\ lexicon[w] # <<>>
         /\ Neighbors(w) = {}
         /\ Returned[x] # Original[x]

(* C8: when no key of the relation map is a key of the table, retrofit   *)
(* raises no error and returns a table with the keys of the input, in    *)
(* the same order, and the same vectors, for every number of iterations. *)
C8_NoGraphNoOp ==
    (pc # "idle" /\ Keys \cap DOMAIN lexicon = {}) =>
        /\ pc # "error"
        /\ pc = "done" => /\ result.keys = wvecs.keys
                          /\ Returned = Original

C8_Witness ==
    /\ pc = "done" /\ n_iters >= 2
    /\ Cardinality(Keys) >= 2
    /\ Keys \cap DOMAIN lexicon = {}
    /\ \E w \in DOMAIN lexicon : Range(lexicon[w]) \cap Keys # {}

(* C9: with n_iters = 0 retrofit returns a table with the keys of the    *)
(* input, in the same order, and the same vectors.                       *)
C9_ZeroIterations ==
    (pc = "done" /\ n_iters = 0) =>
        /\ result.keys = wvecs.keys
        /\ Returned = Original

C9_Witness ==
    /\ pc = "done" /\ n_iters = 0
    /\ Len(wvecs.keys) = 3
    /\ \E w \in Keys : \E u \in Neighbors(w) : Original[u] # Original[w]

====
